---- MODULE Spec2Model ----
(***************************************************************************)
(* Cart ledger and checkout of textual-invmgr (src/src/db/crud.py) over    *)
(* the SQLite store opened by src/src/db/database.py.                      *)
(*                                                                         *)
(* Every call opens its own connection (connect()).  The sqlite3 driver    *)
(* runs SELECT statements outside any transaction and opens a deferred     *)
(* transaction before the first INSERT/UPDATE/DELETE of a connection; the  *)
(* transaction holds the single write lock of the database file until the  *)
(* connection commits, or is closed without commit (rollback).  db is the  *)
(* committed database, the only one other connections read.  The reads a   *)
(* call makes before its first write are steps of their own, between which *)
(* other connections may commit; the statements from the first write to    *)
(* the commit form one step, which either commits the last working state   *)
(* or fails at one of its statements and rolls back.                       *)
(***************************************************************************)
EXTENDS Integers, Sequences, FiniteSets, TLC

\* ---------------------------------------------------------------- bounds
MaxStock == 2
MaxQty == 2
MaxOno == 2
MaxCartCalls == 2
MaxCheckouts == 2
MaxAdminCalls == 1
MaxCalls == 4
MaxQueryLen == 3
MaxPage == 2
MaxSeqCalls == 3
MaxSearchCalls == 2
MaxDigits == 20
MaxK == 3
MaxConnects == 3

\* ------------------------------------------------------------- universes
Procs == {1, 2}
Cids == {1, 2}
ProductIds == {1, 2}
Pids == {1, 2, 3}
Prices == {1, 2}

\* the characters of product texts and queries, and the texts of the catalog
Alphabet == {"a", "A", "1", " "}
CatalogName == <<<<"A", " ", "a">>, <<"a", " ", "1", "1">>>>
CatalogDescr == <<<<"a">>, <<>>>>
StringsUpTo(chars, n) == UNION {[1 .. k -> chars] : k \in 0 .. n}
QueriesUpTo(n) == StringsUpTo(Alphabet, n)

\* the characters LIKE gives a meaning to, and queries of many digits
WildChars == {"%", "_"}
LongDigitQueries == {[i \in 1 .. k |-> "1"] : k \in (MaxDigits - 1) .. MaxDigits}

\* the queries a caller may pass: short strings, and in the specifications
\* that set calls.wide also the wildcard characters and the long numbers
QueriesOf(c) ==
    IF c.wide THEN StringsUpTo(Alphabet \cup WildChars, c.querylen) \cup LongDigitQueries
    ELSE QueriesUpTo(c.querylen)
Pages == 0 .. MaxPage
PageSizes == {1, 5}
Whens == {1, 2}
QtyArgs == (0 - 1) .. MaxQty
StockValues == 0 .. MaxStock
OnoRange == 1 .. MaxOno
None == 0 - 1

VARIABLES db, pc, call, local, ret, stock0, calls, lastSearch, boot

vars == <<db, pc, call, local, ret, stock0, calls, lastSearch, boot>>

\* ------------------------------------------------------------ pure parts
Min(a, b) == IF a <= b THEN a ELSE b

RECURSIVE SumQty(_)
SumQty(rows) ==
    IF rows = {} THEN 0
    ELSE LET r == CHOOSE x \in rows : TRUE
         IN  r.qty + SumQty(rows \ {r})

PairRows(cart, cid, pid) == {r \in cart : r.cid = cid /\ r.pid = pid}

CustomerRows(cart, cid) == {r \in cart : r.cid = cid}

\* SELECT stock_count FROM products WHERE pid = ?;  stock = int(row[0]) if row else 0
StockOf(products, pid) ==
    IF pid \in DOMAIN products THEN products[pid].stock_count ELSE 0

\* SELECT COALESCE(SUM(qty), 0) FROM cart WHERE cid=? AND pid=?
CurTotal(cart, cid, pid) == SumQty(PairRows(cart, cid, pid))

\* mutation of NewTotal: the total is not capped at the stock
NewTotalUncapped(cur_total, qty, stock) == cur_total + qty

\* new_total = min(cur_total + qty, stock)
NewTotal(cur_total, qty, stock) == Min(cur_total + qty, stock)

\* mutation of GroupedCart: the SELECT leaves out "WHERE cid=?"
GroupedCartOfAnyone(cart, cid) ==
    {<<pid, SumQty({r \in cart : r.pid = pid})>> : pid \in {r.pid : r \in cart}}

\* SELECT pid, SUM(qty) FROM cart WHERE cid=? GROUP BY pid  (as a set of <<pid, total>>)
GroupedCart(cart, cid) ==
    {<<pid, CurTotal(cart, cid, pid)>> : pid \in {r.pid : r \in CustomerRows(cart, cid)}}

\* the row orders a GROUP BY without ORDER BY may produce
RowOrders(S) ==
    {f \in [1 .. Cardinality(S) -> S] : \A i, j \in 1 .. Cardinality(S) : f[i] = f[j] => i = j}

\* mutation of UseQty: the cart quantity is committed whatever the stock
UseQtyUncapped(qty, stock) == qty

\* use_qty = min(int(qty), stock)
UseQty(qty, stock) == Min(qty, stock)

Onos(orders) == {o.ono : o \in orders}

\* mutation of OrderLinesOf: the lines of every order
OrderLinesOfAnyOrder(orderlines, ono) == orderlines

OrderLinesOf(orderlines, ono) == {l \in orderlines : l.ono = ono}

LinesOfProduct(orderlines, pid) == {l \in orderlines : l.pid = pid}

\* ----------------------------------------------------------------- state
NoLocal ==
    [stock |-> 0, price |-> 0, cur_total |-> 0, qty |-> 0, cart_rows |-> <<>>, ono |-> 0,
     line_no |-> 0, script |-> 0]

NoCall ==
    [op |-> "none", cid |-> 0, sessionNo |-> 0, pid |-> 0, qty |-> 0, new_price |-> None,
     new_stock_count |-> None, ono |-> 0, query |-> <<>>, page |-> 0, page_size |-> 0,
     when |-> 0, k |-> 0, include_ties_at_k |-> FALSE]

\* ret is the outcome of the call that returned in the last step, if any: the
\* caller, the operation and its customer, how it ended ("ok", or the error
\* raised), the value returned and the rows involved (for checkout the cart
\* rows it had read, for list_cart and the searches the list returned).
\* args is the call's argument record in the specifications that observe it
\* (calls.args), NoCall in the others.
NoRet ==
    [proc |-> 0, op |-> "none", cid |-> 0, status |-> "none", value |-> 0, rows |-> <<>>,
     args |-> NoCall]

\* the sessions <<cid, sessionNo>> a caller works in: customer 1 has two
\* sessions, which may run concurrently, customer 2 has one
SessionsOf(p) == IF p = 1 THEN {<<1, 1>>} ELSE {<<1, 2>>, <<2, 1>>}

\* lastSearch is the last mixed_product_search_sales that returned: its
\* query, the catalog it read, the list it returned and whether the call
\* before it had the same query on the same catalog
NoSearch ==
    [query |-> <<>>, products |-> <<>>, result |-> <<>>, made |-> FALSE, repeated |-> FALSE]

\* boot is the lazy initialization of connect(): the flag _initialized, the
\* holder of _init_lock (0 when free), whether the store has the table
\* "users", how often each of the three scripts has been run, and whether
\* _init_db has returned.  The specifications of the operations start after
\* it; those of connect() start with a new process on an empty store.
\* calls holds, per kind of operation and in total, how many more calls may
\* start, how long a query may be, whether it may hold wildcards and long
\* numbers, and whether ret names the arguments
InitWith(budget, stocks) ==
    /\ \E st \in [ProductIds -> stocks] :
          /\ db = [products   |-> [p \in ProductIds |->
                                      [name |-> CatalogName[p], descr |-> CatalogDescr[p],
                                       price |-> 1, stock_count |-> st[p]]],
                   cart       |-> {},
                   orders     |-> {},
                   orderlines |-> {},
                   search     |-> <<>>]
          /\ stock0 = st
    /\ pc = [p \in Procs |-> "idle"]
    /\ call = [p \in Procs |-> NoCall]
    /\ local = [p \in Procs |-> NoLocal]
    /\ ret = NoRet
    /\ calls = budget
    /\ lastSearch = NoSearch
    /\ boot = IF budget.connect > 0
              THEN [initialized |-> FALSE, lock |-> 0, users |-> FALSE, ran |-> <<0, 0, 0>>,
                    done |-> FALSE]
              ELSE [initialized |-> TRUE, lock |-> 0, users |-> TRUE, ran |-> <<1, 1, 1>>,
                    done |-> TRUE]

Init ==
    InitWith([cart |-> MaxCartCalls, checkout |-> MaxCheckouts, admin |-> 0, read |-> 0, report |-> 0, connect |-> 0,
              search |-> 0, total |-> MaxCalls, args |-> FALSE, querylen |-> 0, wide |-> FALSE],
             {MaxStock})

InitAdmin ==
    InitWith([cart |-> 1, checkout |-> 1, admin |-> MaxAdminCalls, read |-> 0, report |-> 0, connect |-> 0, search |-> 0,
              total |-> MaxCalls, args |-> TRUE, querylen |-> 0, wide |-> FALSE],
             {MaxStock})

\* cart operations only, on products of any stock
InitCart ==
    InitWith([cart |-> MaxCartCalls + 1, checkout |-> 0, admin |-> 0, read |-> 0, report |-> 0, connect |-> 0, search |-> 0,
              total |-> MaxCalls, args |-> FALSE, querylen |-> 0, wide |-> FALSE],
             StockValues)

\* ------------------------------------------------ connection, transaction
\* what conn.commit() persists, given committed database d and working state t
Committed(d, t) == t

\* mutation of RolledBack: the statements run before the failure persist
RolledBackPartial(d, t) == t

\* what persists when the connection is closed without commit (an exception
\* leaves "async with connect()", or the process dies) in working state t:
\* the transaction is rolled back
RolledBack(d, t) == d

\* the call c of p ends with status ("ok", or the error raised) and returns
\* value, or the list rows
ReturnRows(p, c, status, value, rows) ==
    /\ pc' = [pc EXCEPT ![p] = "idle"]
    /\ ret' = [proc |-> p, op |-> c.op, cid |-> c.cid, status |-> status, value |-> value,
               rows |-> rows, args |-> IF calls.args THEN c ELSE NoCall]
    /\ call' = [call EXCEPT ![p] = NoCall]
    /\ local' = [local EXCEPT ![p] = NoLocal]
    /\ boot' = boot

Return(p, c, status, value) == ReturnRows(p, c, status, value, local[p].cart_rows)

Goto(p, label) ==
    /\ pc' = [pc EXCEPT ![p] = label]
    /\ ret' = NoRet
    /\ boot' = boot

StartCall(p, kind) ==
    /\ pc[p] = "idle"
    /\ calls[kind] > 0
    /\ calls.total > 0
    /\ calls' = [calls EXCEPT ![kind] = @ - 1, !.total = @ - 1]

\* The write transaction of p.  trace[1] is the database when the first
\* writing statement starts, trace[k+1] the working state after the k-th
\* writing statement.  Either every statement and the commit succeed and p
\* returns value, or a statement or the commit raises (database locked, I/O
\* error, crash) in working state trace[k] and the connection closes.
TransactionOf(p, c, trace, value, rows) ==
    \/ /\ db' = Committed(db, trace[Len(trace)])
       /\ ReturnRows(p, c, "ok", value, rows)
    \/ \E k \in 1 .. Len(trace) :
          /\ db' = RolledBack(db, trace[k])
          /\ ReturnRows(p, c, "error", 0, local[p].cart_rows)

Transaction(p, trace, value) ==
    TransactionOf(p, call[p], trace, value, local[p].cart_rows)

\* mutation of DeletePair: the DELETE leaves out "AND pid=?"
DeleteCustomer(d, cid, pid) == [d EXCEPT !.cart = @ \ {r \in @ : r.cid = cid}]

\* DELETE FROM cart WHERE cid=? AND pid=?
DeletePair(d, cid, pid) == [d EXCEPT !.cart = @ \ PairRows(@, cid, pid)]

\* mutation of ClearCart: only the rows of products that exist are deleted
ClearCartOfKnownProducts(d, cid) ==
    [d EXCEPT !.cart = @ \ {r \in CustomerRows(@, cid) : r.pid \in DOMAIN d.products}]

\* DELETE FROM cart WHERE cid=?
ClearCart(d, cid) == [d EXCEPT !.cart = @ \ CustomerRows(@, cid)]

\* mutation of InsertCart: the quantity put in the cart is taken off the stock
InsertCartReservingStock(d, cid, sessionNo, pid, qty) ==
    [d EXCEPT !.cart = @ \cup {[cid |-> cid, sessionNo |-> sessionNo, pid |-> pid, qty |-> qty]},
              !.products = [x \in DOMAIN @ |->
                               IF x = pid THEN [@[x] EXCEPT !.stock_count = @ - qty] ELSE @[x]]]

\* INSERT INTO cart(cid, sessionNo, pid, qty) VALUES(?, ?, ?, ?)
InsertCart(d, cid, sessionNo, pid, qty) ==
    [d EXCEPT !.cart = @ \cup {[cid |-> cid, sessionNo |-> sessionNo, pid |-> pid, qty |-> qty]}]

\* mutation of ReplaceTrace: the previous rows of the pair are kept
ReplaceTraceKeepingRows(d, cid, sessionNo, pid, qty) ==
    <<d, d, InsertCart(d, cid, sessionNo, pid, qty)>>

\* consolidate: remove any previous rows for this (cid, pid), then insert one
\* for the current session
ReplaceTrace(d, cid, sessionNo, pid, qty) ==
    <<d, DeletePair(d, cid, pid), InsertCart(DeletePair(d, cid, pid), cid, sessionNo, pid, qty)>>

\* with PRAGMA foreign_keys = ON the store rejects a cart row that references
\* no product if the schema declares the reference
CartInsertMayBeRejected(d, pid) == pid \notin DOMAIN d.products

\* ------------------------------------------------------------ add_to_cart
\* mutation of AddIsNoOp: only the quantity is checked
AddIsNoOpOnQtyOnly(stock, qty) == qty <= 0

\* if stock <= 0 or qty <= 0: return
AddIsNoOp(stock, qty) == stock <= 0 \/ qty <= 0

add_to_cart_begin(p) ==
    \E s \in SessionsOf(p), pid \in Pids, qty \in QtyArgs :
        LET c     == [NoCall EXCEPT !.op = "add_to_cart", !.cid = s[1],
                                    !.sessionNo = s[2], !.pid = pid, !.qty = qty]
            stock == StockOf(db.products, pid)
        IN  /\ StartCall(p, "cart")
            /\ IF AddIsNoOp(stock, qty)
               THEN Return(p, c, "ok", 0)
               ELSE /\ call' = [call EXCEPT ![p] = c]
                    /\ local' = [local EXCEPT ![p] = [NoLocal EXCEPT !.stock = stock]]
                    /\ Goto(p, "add_total")
            /\ UNCHANGED <<db, stock0, lastSearch>>

add_to_cart_total(p) ==
    /\ pc[p] = "add_total"
    /\ local' = [local EXCEPT ![p].cur_total = CurTotal(db.cart, call[p].cid, call[p].pid)]
    /\ Goto(p, "add_replace")
    /\ UNCHANGED <<db, call, stock0, lastSearch, calls>>

add_to_cart_replace(p) ==
    /\ pc[p] = "add_replace"
    /\ Transaction(p, ReplaceTrace(db, call[p].cid, call[p].sessionNo, call[p].pid,
                                   NewTotal(local[p].cur_total, call[p].qty, local[p].stock)),
                   0)
    /\ UNCHANGED <<stock0, lastSearch, calls>>

\* -------------------------------------------------------- update_cart_qty
\* mutation of QtyIsNegative: no quantity is refused
QtyIsNegativeNever(qty) == FALSE

\* if qty < 0: raise ValueError("Quantity cannot be negative.")
QtyIsNegative(qty) == qty < 0

\* mutation of CappedQty: the quantity asked for is written as it is
CappedQtyUncapped(qty, stock) == qty

\* qty = min(qty, stock)
CappedQty(qty, stock) == Min(qty, stock)

update_cart_qty_begin(p) ==
    \E s \in SessionsOf(p), pid \in Pids, qty \in QtyArgs :
        LET c == [NoCall EXCEPT !.op = "update_cart_qty", !.cid = s[1],
                                !.sessionNo = s[2], !.pid = pid, !.qty = qty]
        IN  /\ StartCall(p, "cart")
            /\ IF QtyIsNegative(qty)
               THEN Return(p, c, "ValueError", 0)
               ELSE /\ call' = [call EXCEPT ![p] = c]
                    /\ local' = [local EXCEPT ![p] = NoLocal]
                    /\ Goto(p, IF qty = 0 THEN "set_delete" ELSE "set_stock")
            /\ UNCHANGED <<db, stock0, lastSearch>>

\* if qty == 0: DELETE FROM cart WHERE cid=? AND pid=?; commit; return
update_cart_qty_delete(p) ==
    /\ pc[p] = "set_delete"
    /\ Transaction(p, <<db, DeletePair(db, call[p].cid, call[p].pid)>>, 0)
    /\ UNCHANGED <<stock0, lastSearch, calls>>

\* stock = int(row[0]) if row else 0;  qty = min(qty, stock)
update_cart_qty_stock(p) ==
    /\ pc[p] = "set_stock"
    /\ LET stock == StockOf(db.products, call[p].pid)
       IN  local' = [local EXCEPT ![p].stock = stock, ![p].qty = CappedQty(call[p].qty, stock)]
    /\ Goto(p, "set_replace")
    /\ UNCHANGED <<db, call, stock0, lastSearch, calls>>

update_cart_qty_replace(p) ==
    /\ pc[p] = "set_replace"
    /\ \/ Transaction(p, ReplaceTrace(db, call[p].cid, call[p].sessionNo, call[p].pid,
                                      local[p].qty), 0)
       \/ /\ CartInsertMayBeRejected(db, call[p].pid)
          /\ db' = RolledBack(db, DeletePair(db, call[p].cid, call[p].pid))
          /\ Return(p, call[p], "IntegrityError", 0)
    /\ UNCHANGED <<stock0, lastSearch, calls>>

\* ----------------------------------------------- set_cart_qty_if_in_stock
\* mutation of ExceedsStock: a quantity one above the stock is accepted
ExceedsStockByTwo(qty, stock) == qty > stock + 1

\* if qty > stock: return False
ExceedsStock(qty, stock) == qty > stock

\* the value returned is 1 for True and 0 for False
set_cart_qty_if_in_stock_begin(p) ==
    \E s \in SessionsOf(p), pid \in Pids, qty \in QtyArgs :
        LET c     == [NoCall EXCEPT !.op = "set_cart_qty_if_in_stock", !.cid = s[1],
                                    !.sessionNo = s[2], !.pid = pid, !.qty = qty]
            stock == StockOf(db.products, pid)
        IN  /\ StartCall(p, "cart")
            /\ IF qty < 0
               THEN Return(p, c, "ok", 0)
               ELSE IF ExceedsStock(qty, stock)
               THEN Return(p, c, "ok", 0)
               ELSE /\ call' = [call EXCEPT ![p] = c]
                    /\ local' = [local EXCEPT ![p] = [NoLocal EXCEPT !.stock = stock]]
                    /\ Goto(p, "try_replace")
            /\ UNCHANGED <<db, stock0, lastSearch>>

set_cart_qty_if_in_stock_replace(p) ==
    /\ pc[p] = "try_replace"
    /\ \/ Transaction(p, ReplaceTrace(db, call[p].cid, call[p].sessionNo, call[p].pid,
                                      call[p].qty), 1)
       \/ /\ CartInsertMayBeRejected(db, call[p].pid)
          /\ db' = RolledBack(db, DeletePair(db, call[p].cid, call[p].pid))
          /\ Return(p, call[p], "IntegrityError", 0)
    /\ UNCHANGED <<stock0, calls, lastSearch>>

\* ------------------------------------- remove_from_cart, clear_cart, list_cart
\* DELETE FROM cart WHERE cid = ? AND pid = ?;  commit
remove_from_cart(p) ==
    \E s \in SessionsOf(p), pid \in Pids :
        LET c == [NoCall EXCEPT !.op = "remove_from_cart", !.cid = s[1], !.sessionNo = s[2],
                                !.pid = pid]
        IN  /\ StartCall(p, "cart")
            /\ TransactionOf(p, c, <<db, DeletePair(db, s[1], pid)>>, 0, <<>>)
            /\ UNCHANGED <<stock0, lastSearch>>

\* DELETE FROM cart WHERE cid = ?;  commit
clear_cart(p) ==
    \E s \in SessionsOf(p) :
        LET c == [NoCall EXCEPT !.op = "clear_cart", !.cid = s[1], !.sessionNo = s[2]]
        IN  /\ StartCall(p, "cart")
            /\ TransactionOf(p, c, <<db, ClearCart(db, s[1])>>, 0, <<>>)
            /\ UNCHANGED <<stock0, lastSearch>>

\* SELECT cid, pid, SUM(qty) FROM cart WHERE cid = ? GROUP BY cid, pid;  the
\* items returned, as <<pid, qty>>, carry the cid and the sessionNo passed
list_cart(p) ==
    \E s \in SessionsOf(p) :
        LET c == [NoCall EXCEPT !.op = "list_cart", !.cid = s[1], !.sessionNo = s[2]]
        IN  /\ StartCall(p, "read")
            /\ \E rows \in RowOrders(GroupedCart(db.cart, s[1])) :
                  ReturnRows(p, c, "ok", 0, rows)
            /\ UNCHANGED <<db, stock0, lastSearch>>

\* --------------------------------------------------------------- checkout
\* mutation of OrderInsertRejected: the store accepts any order number
OrderInsertNeverRejected(orders, ono) == FALSE

\* orders.ono is the identity of an order: the store rejects a second
\* header with a number already present
OrderInsertRejected(orders, ono) == ono \in Onos(orders)

\* INSERT INTO orders(ono, cid, sessionNo, odate, shipping_address);
\* odate and shipping_address are stored as passed and read by no operation here
InsertOrder(d, ono, cid, sessionNo) ==
    [d EXCEPT !.orders = @ \cup {[ono |-> ono, cid |-> cid, sessionNo |-> sessionNo]}]

\* INSERT INTO orderlines(ono, lineNo, pid, qty, uprice)
InsertOrderLine(d, ono, line_no, pid, use_qty, price) ==
    [d EXCEPT !.orderlines = @ \cup
        {[ono |-> ono, lineNo |-> line_no, pid |-> pid, qty |-> use_qty, uprice |-> price]}]

\* UPDATE products SET stock_count = stock_count - ? WHERE pid = ?
DecrementStock(d, pid, use_qty) == [d EXCEPT !.products[pid].stock_count = @ - use_qty]

Last(seq) == seq[Len(seq)]

\* mutation of LinesTrace: a skipped cart row consumes a line number too
RECURSIVE LinesTraceCountingSkips(_, _, _, _)
LinesTraceCountingSkips(d, ono, line_no, cart_rows) ==
    IF cart_rows = <<>> THEN <<>>
    ELSE LET pid == Head(cart_rows)[1]
             qty == Head(cart_rows)[2]
         IN  IF pid \notin DOMAIN d.products
             THEN LinesTraceCountingSkips(d, ono, line_no + 1, Tail(cart_rows))
             ELSE LET price   == d.products[pid].price
                      stock   == d.products[pid].stock_count
                      use_qty == UseQty(qty, stock)
                      d1      == InsertOrderLine(d, ono, line_no, pid, use_qty, price)
                      d2      == DecrementStock(d1, pid, use_qty)
                  IN  IF use_qty <= 0
                      THEN LinesTraceCountingSkips(d, ono, line_no + 1, Tail(cart_rows))
                      ELSE <<d1, d2>> \o
                           LinesTraceCountingSkips(d2, ono, line_no + 1, Tail(cart_rows))

\* "for pid, qty in cart_rows": the working states after each writing
\* statement of the loop, from working state d with line_no the next number
RECURSIVE LinesTrace(_, _, _, _)
LinesTrace(d, ono, line_no, cart_rows) ==
    IF cart_rows = <<>> THEN <<>>
    ELSE LET pid == Head(cart_rows)[1]
             qty == Head(cart_rows)[2]
         IN  IF pid \notin DOMAIN d.products
             THEN LinesTrace(d, ono, line_no, Tail(cart_rows))
             ELSE LET price   == d.products[pid].price
                      stock   == d.products[pid].stock_count
                      use_qty == UseQty(qty, stock)
                      d1      == InsertOrderLine(d, ono, line_no, pid, use_qty, price)
                      d2      == DecrementStock(d1, pid, use_qty)
                  IN  IF use_qty <= 0
                      THEN LinesTrace(d, ono, line_no, Tail(cart_rows))
                      ELSE <<d1, d2>> \o LinesTrace(d2, ono, line_no + 1, Tail(cart_rows))

\* mutation of CheckoutTrace: nothing is written for an empty cart
CheckoutTraceNoEmptyOrder(d, ono, cid, sessionNo, cart_rows) ==
    IF cart_rows = <<>> THEN <<d>>
    ELSE LET t1 == <<d, InsertOrder(d, ono, cid, sessionNo)>>
             t2 == t1 \o LinesTrace(Last(t1), ono, 1, cart_rows)
         IN  t2 \o <<ClearCart(Last(t2), cid)>>

\* the write transaction of checkout: header, lines and decrements, cart clear
CheckoutTrace(d, ono, cid, sessionNo, cart_rows) ==
    LET t1 == <<d, InsertOrder(d, ono, cid, sessionNo)>>
        t2 == t1 \o LinesTrace(Last(t1), ono, 1, cart_rows)
    IN  t2 \o <<ClearCart(Last(t2), cid)>>

checkout_begin(p) ==
    \E s \in SessionsOf(p) :
        /\ StartCall(p, "checkout")
        /\ call' = [call EXCEPT ![p] = [NoCall EXCEPT !.op = "checkout", !.cid = s[1],
                                                      !.sessionNo = s[2]]]
        /\ \E rows \in RowOrders(GroupedCart(db.cart, s[1])) :
              local' = [local EXCEPT ![p] = [NoLocal EXCEPT !.cart_rows = rows]]
        /\ Goto(p, "co_rand")
        /\ UNCHANGED <<db, stock0, lastSearch>>

\* ono = random.randint(100000, 999999)
checkout_rand(p) ==
    /\ pc[p] = "co_rand"
    /\ \E ono \in OnoRange : local' = [local EXCEPT ![p].ono = ono]
    /\ Goto(p, "co_exists")
    /\ UNCHANGED <<db, call, stock0, lastSearch, calls>>

\* SELECT 1 FROM orders WHERE ono=?;  if not exists: break
checkout_exists(p) ==
    /\ pc[p] = "co_exists"
    /\ IF local[p].ono \in Onos(db.orders)
       THEN Goto(p, "co_rand")
       ELSE Goto(p, "co_order")
    /\ UNCHANGED <<db, call, local, stock0, lastSearch, calls>>

checkout_transaction(p) ==
    /\ pc[p] = "co_order"
    /\ IF OrderInsertRejected(db.orders, local[p].ono)
       THEN /\ db' = RolledBack(db, db)
            /\ Return(p, call[p], "IntegrityError", 0)
       ELSE Transaction(p, CheckoutTrace(db, local[p].ono, call[p].cid, call[p].sessionNo,
                                         local[p].cart_rows),
                        local[p].ono)
    /\ UNCHANGED <<stock0, lastSearch, calls>>

\* ---------------------------------------------------- compute_order_total
RECURSIVE SumQtyPrice(_)
SumQtyPrice(lines) ==
    IF lines = {} THEN 0
    ELSE LET l == CHOOSE x \in lines : TRUE
         IN  l.qty * l.uprice + SumQtyPrice(lines \ {l})

\* mutation of ComputeOrderTotal: the lines are priced at the product's price
\* of today
ComputeOrderTotalAtCurrentPrice(d, ono) ==
    SumQtyPrice({[qty |-> l.qty, uprice |-> d.products[l.pid].price, pid |-> l.pid,
                  lineNo |-> l.lineNo] : l \in OrderLinesOf(d.orderlines, ono)})

\* SELECT COALESCE(SUM(qty * uprice), 0.0) FROM orderlines WHERE ono = ?
ComputeOrderTotal(d, ono) == SumQtyPrice(OrderLinesOf(d.orderlines, ono))

compute_order_total(p) ==
    \E ono \in OnoRange :
        LET c == [NoCall EXCEPT !.op = "compute_order_total", !.ono = ono]
        IN  /\ StartCall(p, "read")
            /\ Return(p, c, "ok", ComputeOrderTotal(db, ono))
            /\ UNCHANGED <<db, stock0, lastSearch>>

\* ------------------------------------------------- top_products_by_orders
\* COUNT(DISTINCT ono) of the lines of pid
OrderCount(orderlines, pid) == Cardinality({l.ono : l \in LinesOfProduct(orderlines, pid)})

\* SELECT pid, COUNT(DISTINCT ono) AS order_count FROM orderlines GROUP BY pid
\* ORDER BY order_count DESC, pid;  the rows are <<pid, order_count>>
RankedRows(orderlines) ==
    LET S == {<<pid, OrderCount(orderlines, pid)>> : pid \in {l.pid : l \in orderlines}}
    IN  CHOOSE f \in RowOrders(S) :
            \A i, j \in 1 .. Len(f) :
                i < j => f[i][2] > f[j][2] \/ (f[i][2] = f[j][2] /\ f[i][1] < f[j][1])

\* rows[:k] of Python: the first k rows, and for k < 0 all but the last -k
SliceTo(rows, k) ==
    IF k >= 0 THEN SubSeq(rows, 1, Min(k, Len(rows)))
    ELSE SubSeq(rows, 1, IF Len(rows) + k > 0 THEN Len(rows) + k ELSE 0)

\* the rows whose count is at least that of the k-th (the last if there are fewer)
WithTiesAt(rows, k) ==
    LET threshold  == rows[Min(k, Len(rows))][2]
        AtLeast(r) == r[2] >= threshold
    IN  SelectSeq(rows, AtLeast)

TopProducts(orderlines, k, include_ties_at_k) ==
    LET rows == RankedRows(orderlines)
    IN  IF rows = <<>> THEN <<>>
        ELSE IF ~include_ties_at_k THEN SliceTo(rows, k)
        ELSE IF k < 1 THEN <<>>
        ELSE WithTiesAt(rows, k)

top_products_by_orders(p) ==
    /\ StartCall(p, "report")
    /\ \E k \in (0 - MaxK) .. MaxK, include_ties_at_k \in BOOLEAN :
          LET c == [NoCall EXCEPT !.op = "top_products_by_orders", !.k = k,
                                  !.include_ties_at_k = include_ties_at_k]
          IN  ReturnRows(p, c, "ok", 0, TopProducts(db.orderlines, k, include_ties_at_k))
    /\ UNCHANGED <<db, stock0, lastSearch>>

\* --------------------------------------------- update_product_price_stock
\* UPDATE products SET price = ?, stock_count = ? WHERE pid = ?
UpdateProduct(d, pid, upd_price, upd_stock) ==
    [d EXCEPT !.products[pid].price = upd_price, !.products[pid].stock_count = upd_stock]

\* the value returned is 1 for True and 0 for False
update_product_price_stock_begin(p) ==
    \E pid \in Pids, new_price \in Prices \cup {None}, new_stock_count \in StockValues \cup {None} :
        LET c == [NoCall EXCEPT !.op = "update_product_price_stock", !.pid = pid,
                                !.new_price = new_price, !.new_stock_count = new_stock_count]
        IN  /\ StartCall(p, "admin")
            /\ IF new_price = None /\ new_stock_count = None
               THEN Return(p, c, "ok", 0)
               ELSE IF pid \notin DOMAIN db.products
               THEN Return(p, c, "ok", 0)
               ELSE /\ call' = [call EXCEPT ![p] = c]
                    /\ local' = [local EXCEPT ![p] =
                          [NoLocal EXCEPT !.price = db.products[pid].price,
                                          !.stock = db.products[pid].stock_count]]
                    /\ Goto(p, "upd_update")
            /\ UNCHANGED <<db, stock0, lastSearch>>

\* UPDATE products SET price = ?, stock_count = ? WHERE pid = ?;  commit
update_product_price_stock_update(p) ==
    /\ pc[p] = "upd_update"
    /\ LET upd_price == IF call[p].new_price /= None THEN call[p].new_price ELSE local[p].price
           upd_stock == IF call[p].new_stock_count /= None THEN call[p].new_stock_count
                        ELSE local[p].stock
       IN  Transaction(p, <<db, UpdateProduct(db, call[p].pid, upd_price, upd_stock)>>, 1)
    /\ UNCHANGED <<stock0, lastSearch, calls>>

\* ----------------------------------------------------------------- search
\* str.lower()
LowerChar(c) == IF c = "A" THEN "a" ELSE c

Lower(str) == [i \in 1 .. Len(str) |-> LowerChar(str[i])]

IsSpace(c) == c = " "

RECURSIVE LStrip(_)
LStrip(str) == IF str /= <<>> /\ IsSpace(Head(str)) THEN LStrip(Tail(str)) ELSE str

RECURSIVE RStrip(_)
RStrip(str) ==
    IF str /= <<>> /\ IsSpace(str[Len(str)]) THEN RStrip(SubSeq(str, 1, Len(str) - 1)) ELSE str

\* mutation of Strip: the trailing white space stays
StripLeft(str) == LStrip(str)

\* str.strip()
Strip(str) == RStrip(LStrip(str))

\* str.split(): the maximal runs of characters other than white space
RECURSIVE Split(_)
Split(str) ==
    LET t == LStrip(str)
    IN  IF t = <<>> THEN <<>>
        ELSE LET n == CHOOSE i \in 1 .. Len(t) + 1 :
                         /\ i = Len(t) + 1 \/ IsSpace(t[i])
                         /\ \A j \in 1 .. (i - 1) : ~IsSpace(t[j])
             IN  <<SubSeq(t, 1, n - 1)>> \o Split(SubSeq(t, n, Len(t)))

DigitChars == <<"0", "1", "2", "3", "4", "5", "6", "7", "8", "9">>

\* str.isdigit()
IsDigit(str) == str /= <<>> /\ \A i \in 1 .. Len(str) : \E k \in 1 .. 10 : DigitChars[k] = str[i]

DigitValue(c) == (CHOOSE k \in 1 .. 10 : DigitChars[k] = c) - 1

\* int(phrase), for a string of digits: a Python int has no width, so the
\* value is held as its decimal digits, without the leading zeros
RECURSIVE IntDigits(_)
IntDigits(str) ==
    IF Len(str) > 1 /\ Head(str) = "0" THEN IntDigits(Tail(str)) ELSE str

\* the decimal digits of a pid of the catalog
RECURSIVE Decimal(_)
Decimal(n) ==
    IF n < 10 THEN <<DigitChars[n + 1]>>
    ELSE Append(Decimal(n \div 10), DigitChars[(n % 10) + 1])

\* the largest value of an INTEGER of the store, 2^63 - 1
SqliteMaxInteger ==
    <<"9", "2", "2", "3", "3", "7", "2", "0", "3", "6", "8", "5", "4", "7", "7", "5", "8", "0",
      "7">>

\* d > m, for numbers held as decimal digits
ExceedsDigits(d, m) ==
    \/ Len(d) > Len(m)
    \/ /\ Len(d) = Len(m)
       /\ \E i \in 1 .. Len(d) :
             /\ \A j \in 1 .. (i - 1) : d[j] = m[j]
             /\ DigitValue(d[i]) > DigitValue(m[i])

\* binding the parameter (pid_val,) raises OverflowError when the int does
\* not fit an INTEGER of the store
BindOverflows(digits) == ExceedsDigits(digits, SqliteMaxInteger)

\* WHERE pid = ?  (the pids of the rows)
PidExact(products, digits) == {pid \in DOMAIN products : Decimal(pid) = digits}

\* term, from its j-th character, matches text from its i-th character on
\* and some way along: letters are compared without case, '%' in the term
\* stands for any run of characters and '_' for any one character
RECURSIVE LikeFrom(_, _, _, _)
LikeFrom(text, i, term, j) ==
    IF j > Len(term) THEN TRUE
    ELSE IF term[j] = "%"
    THEN \E k \in i .. (Len(text) + 1) : LikeFrom(text, k, term, j + 1)
    ELSE /\ i <= Len(text)
         /\ term[j] = "_" \/ LowerChar(term[j]) = LowerChar(text[i])
         /\ LikeFrom(text, i + 1, term, j + 1)

\* text LIKE f"%{term}%": the term matches somewhere in text
Like(text, term) == \E i \in 1 .. (Len(text) + 1) : LikeFrom(text, i, term, 1)

\* WHERE LOWER(name) LIKE ? OR LOWER(descr) LIKE ?  (the pids of the rows)
Matches(products, term) ==
    {pid \in DOMAIN products :
        Like(Lower(products[pid].name), term) \/ Like(Lower(products[pid].descr), term)}

\* mutation of SelectOrders: the SELECT has no ORDER BY
SelectInAnyOrder(S) == RowOrders(S)

\* ORDER BY pid: the one order in which a SELECT returns the rows S
SelectOrders(S) ==
    {f \in RowOrders(S) : \A i, j \in 1 .. Cardinality(S) : i < j => f[i] < f[j]}

InSeq(x, seq) == \E i \in 1 .. Len(seq) : seq[i] = x

\* mutation of AddRows: the rows are appended whether seen or not
AddRowsKeepingRepeats(results, rows) == results \o rows

\* add_rows: append the rows whose pid is not in seen
RECURSIVE AddRows(_, _)
AddRows(results, rows) ==
    IF rows = <<>> THEN results
    ELSE AddRows(IF InSeq(Head(rows), results) THEN results ELSE Append(results, Head(rows)),
                 Tail(rows))

\* the words without the repeats, in order of first occurrence (seen_words)
RECURSIVE DistinctWords(_, _)
DistinctWords(words, seen) ==
    IF words = <<>> THEN seen
    ELSE DistinctWords(Tail(words),
                       IF InSeq(Head(words), seen) THEN seen ELSE Append(seen, Head(words)))

\* the results of running one SELECT per term and add_rows on each
RECURSIVE Staged(_, _, _)
Staged(products, terms, results) ==
    IF terms = <<>> THEN {results}
    ELSE UNION {Staged(products, Tail(terms), AddRows(results, rows)) :
                   rows \in SelectOrders(Matches(products, Head(terms)))}

\* phrase = (query or "").strip().lower()
Phrase(query) == Lower(Strip(query))

\* the call raises: a query of digits whose value the store cannot take
AdminSearchRaises(query) ==
    IsDigit(Phrase(query)) /\ BindOverflows(IntDigits(Phrase(query)))

\* the lists of pids mixed_product_search_sales may return for query
AdminSearch(products, query) ==
    LET phrase == Phrase(query)
        words  == Split(phrase)
    IN  IF phrase = <<>> THEN SelectOrders(DOMAIN products)
        ELSE IF IsDigit(phrase)
        THEN IF PidExact(products, IntDigits(phrase)) /= {}
             THEN SelectOrders(PidExact(products, IntDigits(phrase)))
             ELSE Staged(products, <<phrase>>, <<>>)
        ELSE IF Len(words) > 1
        THEN Staged(products, <<phrase>> \o DistinctWords(words, <<>>), <<>>)
        ELSE SelectOrders(Matches(products, phrase))

\* the products of the rows are those of the catalog at the SELECT that
\* returned them; name, descr and pid, which decide the match, are changed by
\* no operation
mixed_product_search_sales(p) ==
    /\ StartCall(p, "search")
    /\ \E query \in QueriesOf(calls) :
        LET c == [NoCall EXCEPT !.op = "mixed_product_search_sales", !.query = query]
        IN  /\ IF AdminSearchRaises(query)
               THEN /\ ReturnRows(p, c, "OverflowError", 0, <<>>)
                    /\ UNCHANGED lastSearch
               ELSE \E result \in AdminSearch(db.products, query) :
                       /\ ReturnRows(p, c, "ok", 0, result)
                       /\ lastSearch' =
                             [query |-> query, products |-> db.products, result |-> result,
                              made |-> TRUE,
                              repeated |-> /\ lastSearch.made
                                           /\ lastSearch.query = query
                                           /\ lastSearch.products = db.products]
            /\ UNCHANGED <<db, stock0>>

\* the terms of search_products: the phrase and each word not yet among the
\* terms, or the single word, or none
SearchTerms(keyword) ==
    LET phrase == Phrase(keyword)
        words  == Split(phrase)
    IN  IF phrase = <<>> THEN <<>>
        ELSE IF Len(words) > 1 THEN DistinctWords(words, <<phrase>>)
        ELSE <<phrase>>

\* WHERE (...) OR (...) over the terms;  "1 = 0" when there is none
MatchesAny(products, terms) ==
    UNION {Matches(products, terms[i]) : i \in 1 .. Len(terms)}

\* LIMIT page_size OFFSET max(page - 1, 0) * page_size
PageOf(rows, page, page_size) ==
    LET offset == (IF page - 1 > 0 THEN page - 1 ELSE 0) * page_size
    IN  SubSeq(rows, offset + 1, Min(offset + page_size, Len(rows)))

\* mutation of InsertSearch: the query is recorded trimmed and in lower case
InsertSearchNormalised(d, cid, sessionNo, ts, keyword) ==
    [d EXCEPT !.search = Append(@, [cid |-> cid, sessionNo |-> sessionNo, ts |-> ts,
                                    query |-> Phrase(keyword)])]

\* INSERT INTO search(cid, sessionNo, ts, query) VALUES(?, ?, ?, ?)
InsertSearch(d, cid, sessionNo, ts, keyword) ==
    [d EXCEPT !.search = Append(@, [cid |-> cid, sessionNo |-> sessionNo, ts |-> ts,
                                    query |-> keyword])]

\* the value returned is total, the rows are the page
search_products(p) ==
    /\ StartCall(p, "search")
    /\ \E s \in SessionsOf(p), keyword \in QueriesOf(calls), page \in Pages, page_size \in PageSizes,
       when \in Whens :
        LET c     == [NoCall EXCEPT !.op = "search_products", !.cid = s[1], !.sessionNo = s[2],
                                    !.query = keyword, !.page = page, !.page_size = page_size,
                                    !.when = when]
            found == MatchesAny(db.products, SearchTerms(keyword))
        IN  /\ \E rows \in SelectOrders(found) :
                  TransactionOf(p, c, <<db, InsertSearch(db, s[1], s[2], when, keyword)>>,
                                Cardinality(found), PageOf(rows, page, page_size))
            /\ UNCHANGED <<stock0, lastSearch>>

\* ---------------------------------------------------------------- connect
\* conn = await aiosqlite.connect(DB_PATH);  await conn.execute("PRAGMA ...")
connect_open(p) ==
    /\ StartCall(p, "connect")
    /\ Goto(p, "cn_opened")
    /\ UNCHANGED <<db, call, local, stock0, lastSearch>>

\* mutation of connect_enter: the initialization is entered without the lock
connect_enter_unlocked(p) ==
    /\ pc[p] = "cn_opened"
    /\ IF boot.initialized
       THEN pc' = [pc EXCEPT ![p] = "cn_held"] /\ boot' = boot
       ELSE pc' = [pc EXCEPT ![p] = "cn_exists"] /\ boot' = [boot EXCEPT !.lock = p]
    /\ ret' = NoRet
    /\ UNCHANGED <<db, call, local, stock0, lastSearch, calls>>

\* if not _initialized: async with _init_lock: if not _initialized: ...
\* An initialized process yields the connection; a free lock is taken without
\* suspending, a held one is waited for.
connect_enter(p) ==
    /\ pc[p] = "cn_opened"
    /\ IF boot.initialized
       THEN pc' = [pc EXCEPT ![p] = "cn_held"] /\ boot' = boot
       ELSE IF boot.lock = 0
       THEN pc' = [pc EXCEPT ![p] = "cn_exists"] /\ boot' = [boot EXCEPT !.lock = p]
       ELSE pc' = [pc EXCEPT ![p] = "cn_wait"] /\ boot' = boot
    /\ ret' = NoRet
    /\ UNCHANGED <<db, call, local, stock0, lastSearch, calls>>

\* the lock is released to a waiter, which checks _initialized again and, if
\* it is set, releases the lock and yields the connection
connect_acquire(p) ==
    /\ pc[p] = "cn_wait"
    /\ boot.lock = 0
    /\ IF boot.initialized
       THEN pc' = [pc EXCEPT ![p] = "cn_held"] /\ boot' = boot
       ELSE pc' = [pc EXCEPT ![p] = "cn_exists"] /\ boot' = [boot EXCEPT !.lock = p]
    /\ ret' = NoRet
    /\ UNCHANGED <<db, call, local, stock0, lastSearch, calls>>

\* exists = await _table_exists(conn, "users");  if it exists: _initialized =
\* True, the lock is released and the connection yielded
connect_table_exists(p) ==
    /\ pc[p] = "cn_exists"
    /\ IF boot.users
       THEN /\ pc' = [pc EXCEPT ![p] = "cn_held"]
            /\ boot' = [boot EXCEPT !.initialized = TRUE, !.lock = 0]
            /\ local' = local
       ELSE /\ pc' = [pc EXCEPT ![p] = "cn_script"]
            /\ boot' = boot
            /\ local' = [local EXCEPT ![p].script = 1]
    /\ ret' = NoRet
    /\ UNCHANGED <<db, call, stock0, lastSearch, calls>>

\* _init_db: each script is skipped if its file is missing or empty, and run
\* otherwise (any of them may create "users"); then await conn.commit(), and
\* back in connect(): _initialized = True, the lock is released and the
\* connection yielded
init_db(p) ==
    /\ pc[p] = "cn_script"
    /\ LET k == local[p].script
       IN  IF k <= 3
           THEN /\ \E run, creates \in BOOLEAN :
                      boot' = IF run
                              THEN [boot EXCEPT !.ran[k] = @ + 1, !.users = @ \/ creates]
                              ELSE boot
                /\ local' = [local EXCEPT ![p].script = k + 1]
                /\ pc' = pc
           ELSE /\ boot' = [boot EXCEPT !.done = TRUE, !.initialized = TRUE, !.lock = 0]
                /\ local' = [local EXCEPT ![p] = NoLocal]
                /\ pc' = [pc EXCEPT ![p] = "cn_held"]
    /\ ret' = NoRet
    /\ UNCHANGED <<db, call, stock0, lastSearch, calls>>

\* the caller's block ends:  finally: await conn.close()
connect_close(p) ==
    /\ pc[p] = "cn_held"
    /\ Return(p, [NoCall EXCEPT !.op = "connect"], "ok", 0)
    /\ UNCHANGED <<db, stock0, lastSearch, calls>>

\* --------------------------------------------------------- specifications
CartStep(p) ==
    \/ add_to_cart_begin(p)
    \/ add_to_cart_total(p)
    \/ add_to_cart_replace(p)
    \/ update_cart_qty_begin(p)
    \/ update_cart_qty_delete(p)
    \/ update_cart_qty_stock(p)
    \/ update_cart_qty_replace(p)

CheckoutStep(p) ==
    \/ checkout_begin(p)
    \/ checkout_rand(p)
    \/ checkout_exists(p)
    \/ checkout_transaction(p)

AdminStep(p) ==
    \/ update_product_price_stock_begin(p)
    \/ update_product_price_stock_update(p)

LedgerStep(p) ==
    \/ set_cart_qty_if_in_stock_begin(p)
    \/ set_cart_qty_if_in_stock_replace(p)
    \/ remove_from_cart(p)
    \/ clear_cart(p)

ReadStep(p) ==
    \/ list_cart(p)
    \/ compute_order_total(p)

SearchStep(p) ==
    \/ mixed_product_search_sales(p)
    \/ search_products(p)

\* cart operations and checkouts of concurrent callers
Next == \E p \in Procs : CartStep(p) \/ CheckoutStep(p)

Spec == Init /\ [][Next]_vars

\* the same with administrative price and stock updates
NextAdmin == \E p \in Procs : CartStep(p) \/ CheckoutStep(p) \/ AdminStep(p)

SpecAdmin == InitAdmin /\ [][NextAdmin]_vars

\* sequences of AddQuantity and SetQuantity calls only
NextCart == \E p \in Procs : CartStep(p)

SpecCart == InitCart /\ [][NextCart]_vars

\* every operation, one call at a time: a call starts when no other is in
\* progress (the single logical writer of spec section 5)
Alone(p) == \A q \in Procs \ {p} : pc[q] = "idle"

InitSeq ==
    InitWith([cart |-> MaxSeqCalls, checkout |-> MaxSeqCalls, admin |-> MaxSeqCalls,
              read |-> MaxSeqCalls, report |-> 0, connect |-> 0, search |-> 0, total |-> MaxSeqCalls, args |-> TRUE,
              querylen |-> 0, wide |-> FALSE],
             {MaxStock})

NextSeq ==
    \E p \in Procs :
        /\ Alone(p)
        /\ \/ CartStep(p)
           \/ LedgerStep(p)
           \/ CheckoutStep(p)
           \/ AdminStep(p)
           \/ ReadStep(p)

SpecSeq == InitSeq /\ [][NextSeq]_vars

\* orders under later cart operations, checkouts and administrative updates,
\* one call at a time
InitOrders ==
    InitWith([cart |-> MaxCartCalls, checkout |-> MaxCheckouts, admin |-> MaxAdminCalls,
              read |-> 0, report |-> 0, connect |-> 0, search |-> 0, total |-> MaxCalls, args |-> FALSE, querylen |-> 0, wide |-> FALSE],
             {MaxStock})

NextOrders == \E p \in Procs : Alone(p) /\ (CartStep(p) \/ CheckoutStep(p) \/ AdminStep(p))

SpecOrders == InitOrders /\ [][NextOrders]_vars

\* the same with the searches, on the empty query
InitAll ==
    InitWith([cart |-> MaxSeqCalls, checkout |-> MaxSeqCalls, admin |-> MaxSeqCalls,
              read |-> MaxSeqCalls, report |-> 0, connect |-> 0, search |-> MaxSeqCalls, total |-> MaxSeqCalls,
              args |-> FALSE, querylen |-> 0, wide |-> FALSE],
             {MaxStock})

NextAll ==
    \E p \in Procs :
        /\ Alone(p)
        /\ \/ CartStep(p)
           \/ LedgerStep(p)
           \/ CheckoutStep(p)
           \/ AdminStep(p)
           \/ ReadStep(p)
           \/ SearchStep(p)

SpecAll == InitAll /\ [][NextAll]_vars

\* administrative searches over a catalog whose prices and stocks change
InitSearch ==
    InitWith([cart |-> 0, checkout |-> 0, admin |-> 1, read |-> 0, report |-> 0, connect |-> 0, search |-> MaxSearchCalls,
              total |-> MaxSearchCalls + 1, args |-> TRUE, querylen |-> MaxQueryLen, wide |-> FALSE],
             {MaxStock})

NextSearch == \E p \in Procs : Alone(p) /\ (mixed_product_search_sales(p) \/ AdminStep(p))

SpecSearch == InitSearch /\ [][NextSearch]_vars

\* one search, by either operation, on any query: short strings with the
\* wildcard characters of LIKE, and long numbers
InitQuery ==
    InitWith([cart |-> 0, checkout |-> 0, admin |-> 0, read |-> 0, report |-> 0, connect |-> 0, search |-> 1, total |-> 1,
              args |-> TRUE, querylen |-> MaxQueryLen, wide |-> TRUE],
             {MaxStock})

NextQuery == \E p \in Procs : Alone(p) /\ SearchStep(p)

SpecQuery == InitQuery /\ [][NextQuery]_vars

\* customer searches and administrative searches in sequence
InitAudit ==
    InitWith([cart |-> 0, checkout |-> 0, admin |-> 0, read |-> 0, report |-> 0, connect |-> 0, search |-> MaxSearchCalls,
              total |-> MaxSearchCalls, args |-> TRUE, querylen |-> 1, wide |-> FALSE],
             {MaxStock})

NextAudit == \E p \in Procs : Alone(p) /\ SearchStep(p)

SpecAudit == InitAudit /\ [][NextAudit]_vars

\* checkouts of concurrent callers, one more than there are order numbers.
\* A call that has started keeps running (the event loop resumes every
\* coroutine that can go on), and random.randint returns every number of its
\* range again and again; whether a call starts is up to the caller.
InitLive ==
    InitWith([cart |-> 0, checkout |-> MaxOno + 1, admin |-> 0, read |-> 0, report |-> 0, connect |-> 0, search |-> 0,
              total |-> MaxOno + 1, args |-> FALSE, querylen |-> 0, wide |-> FALSE],
             {MaxStock})

NextLive == \E p \in Procs : CheckoutStep(p)

FairLive ==
    \A p \in Procs :
        /\ WF_vars(checkout_exists(p))
        /\ WF_vars(checkout_transaction(p))
        /\ \A ono \in OnoRange : SF_vars(checkout_rand(p) /\ local'[p].ono = ono)

SpecLive == InitLive /\ [][NextLive]_vars /\ FairLive

\* checkouts of concurrent callers; the cart operations run one at a time,
\* between the checkouts
NextCheckouts ==
    \E p \in Procs :
        \/ Alone(p) /\ CartStep(p)
        \/ /\ \A q \in Procs \ {p} : pc[q] \in {"idle", "co_rand", "co_exists", "co_order"}
           /\ CheckoutStep(p)

SpecCheckouts == Init /\ [][NextCheckouts]_vars

\* the three consolidating cart writes with list_cart and checkout, of
\* concurrent callers
InitGap ==
    InitWith([cart |-> MaxCartCalls, checkout |-> 1, admin |-> 0, read |-> 1, report |-> 0, connect |-> 0,
              search |-> 0, total |-> MaxCalls, args |-> TRUE, querylen |-> 0, wide |-> FALSE],
             {MaxStock})

NextGap ==
    \E p \in Procs :
        \/ CartStep(p)
        \/ set_cart_qty_if_in_stock_begin(p)
        \/ set_cart_qty_if_in_stock_replace(p)
        \/ list_cart(p)
        \/ CheckoutStep(p)

SpecGap == InitGap /\ [][NextGap]_vars

\* connect() calls of concurrent callers in a new process on an empty store
InitBoot ==
    InitWith([cart |-> 0, checkout |-> 0, admin |-> 0, read |-> 0, report |-> 0,
              connect |-> MaxConnects, search |-> 0, total |-> MaxConnects, args |-> FALSE,
              querylen |-> 0, wide |-> FALSE],
             {MaxStock})

NextBoot ==
    \E p \in Procs :
        \/ connect_open(p)
        \/ connect_enter(p)
        \/ connect_acquire(p)
        \/ connect_table_exists(p)
        \/ init_db(p)
        \/ connect_close(p)

SpecBoot == InitBoot /\ [][NextBoot]_vars

\* the sales report after AddQuantity calls and checkouts, one call at a time
InitReport ==
    InitWith([cart |-> MaxCartCalls + 1, checkout |-> MaxCheckouts, admin |-> 0, read |-> 0,
              report |-> 1, connect |-> 0, search |-> 0, total |-> MaxCalls + 2, args |-> TRUE,
              querylen |-> 0, wide |-> FALSE],
             {MaxStock})

NextReport ==
    \E p \in Procs :
        /\ Alone(p)
        /\ \/ add_to_cart_begin(p)
           \/ add_to_cart_total(p)
           \/ add_to_cart_replace(p)
           \/ CheckoutStep(p)
           \/ top_products_by_orders(p)

SpecReport == InitReport /\ [][NextReport]_vars

TypeOK ==
    /\ \A p \in Procs : pc[p] \in {"idle", "add_total", "add_replace", "set_delete", "set_stock",
                                   "set_replace", "try_replace", "co_rand", "co_exists",
                                   "co_order", "upd_update"}
    /\ \A p \in Procs : pc[p] = "idle" => call[p] = NoCall /\ local[p] = NoLocal

\* ----------------------------------------------------------------- claims
\* the step in which the checkout of p commits, and the one in which it fails
\* after its order number was chosen
CheckoutCommits(p) == pc[p] = "co_order" /\ pc'[p] = "idle" /\ ret'.status = "ok"

CheckoutFails(p) == pc[p] = "co_order" /\ pc'[p] = "idle" /\ ret'.status /= "ok"

\* the lines the order ono has for product pid in database d
LinesFor(d, ono, pid) == {l \in d.orderlines : l.ono = ono /\ l.pid = pid}

\* C1: after any sequence of add_to_cart and update_cart_qty calls every
\* (customer, product) pair has at most one cart row, and the quantity held
\* for the pair does not exceed the product's stock_count
C1_ConsolidatedWithinStock ==
    \A cid \in Cids, pid \in Pids :
        /\ Cardinality(PairRows(db.cart, cid, pid)) <= 1
        /\ CurTotal(db.cart, cid, pid) <= StockOf(db.products, pid)

\* an add_to_cart has just committed, after at least one other cart call,
\* and its customer holds a row whose quantity is the whole stock
C1_Witness ==
    /\ ret.op = "add_to_cart"
    /\ ret.status = "ok"
    /\ calls.total <= MaxCalls - 2
    /\ \E r \in db.cart :
          r.cid = ret.cid /\ r.qty >= 1 /\ r.qty = StockOf(db.products, r.pid)

\* C2: for every cart line a committing checkout processes whose product
\* exists, the order line's qty is min(cart quantity, current stock_count)
\* and stock_count drops by exactly that qty; if that qty is <= 0 there is no
\* order line and no stock change
C2_CommitsMinOfCartAndStock ==
    [][\A p \in Procs : CheckoutCommits(p) =>
          \A i \in 1 .. Len(local[p].cart_rows) :
              LET pid   == local[p].cart_rows[i][1]
                  qty   == local[p].cart_rows[i][2]
                  m     == Min(qty, StockOf(db.products, pid))
                  lines == LinesFor(db', local[p].ono, pid)
              IN  pid \in DOMAIN db.products =>
                     IF m > 0
                     THEN /\ Cardinality(lines) = 1
                          /\ \A l \in lines : l.qty = m
                          /\ db'.products[pid].stock_count = db.products[pid].stock_count - m
                     ELSE /\ lines = {}
                          /\ db'.products[pid] = db.products[pid]]_vars

\* a checkout has committed a line with less than the quantity its cart held
C2_Witness ==
    /\ ret.op = "checkout"
    /\ ret.status = "ok"
    /\ \E i \in 1 .. Len(ret.rows) :
          \E l \in LinesFor(db, ret.value, ret.rows[i][1]) :
              l.qty < ret.rows[i][2] /\ db.products[l.pid].stock_count = 0

\* C3: a checkout that fails after its order number was chosen leaves the
\* orders, the order lines, every stock_count and the cart as they were, and
\* the caller gets one failure
C3_FailedCheckoutPersistsNothing ==
    [][\A p \in Procs : CheckoutFails(p) =>
          /\ db' = db
          /\ ret'.proc = p
          /\ ret'.status \in {"error", "IntegrityError"}]_vars

\* a checkout that had cart lines to commit has failed, and the customer's
\* cart rows are still there
C3_Witness ==
    /\ ret.op = "checkout"
    /\ ret.status = "error"
    /\ ret.rows /= <<>>
    /\ \E i \in 1 .. Len(ret.rows) :
          /\ ret.rows[i][1] \in DOMAIN db.products
          /\ ret.rows[i][2] > 0
          /\ CurTotal(db.cart, ret.cid, ret.rows[i][1]) = ret.rows[i][2]

\* C4: two concurrent add_to_cart calls on the same (customer, product) pair
\* are serialized: when a call replaces the pair's rows, the total it read is
\* still the total the pair holds, so the new quantity is
\* min(current total + qty, stock) and no increment is lost
C4_AddsSerialized ==
    [][\A p \in Procs :
          (pc[p] = "add_replace" /\ pc'[p] = "idle" /\ ret'.status = "ok") =>
              /\ local[p].cur_total = CurTotal(db.cart, call[p].cid, call[p].pid)
              /\ CurTotal(db'.cart, call[p].cid, call[p].pid) =
                    Min(CurTotal(db.cart, call[p].cid, call[p].pid) + call[p].qty,
                        local[p].stock)]_vars

\* C5: whatever checkouts of different customers run concurrently on carts
\* holding the same product, no stock_count becomes negative and the order
\* lines of a product never sum to more than the stock it started with
C5_NoOversell ==
    \A pid \in ProductIds :
        /\ db.products[pid].stock_count >= 0
        /\ SumQty(LinesOfProduct(db.orderlines, pid)) <= stock0[pid]

\* the orders of two different customers both hold a line of the same
\* product, and together they took its whole stock
C5_Witness ==
    \E o1, o2 \in db.orders :
        /\ o1.cid /= o2.cid
        /\ \E l1 \in OrderLinesOf(db.orderlines, o1.ono), l2 \in OrderLinesOf(db.orderlines, o2.ono) :
              /\ l1.pid = l2.pid
              /\ l1.qty + l2.qty = stock0[l1.pid]
              /\ db.products[l1.pid].stock_count = 0

\* C6: in every committed state, for every product the stock it started with
\* minus its stock_count is the sum of qty over its order lines
C6_StockMatchesOrderLines ==
    \A pid \in ProductIds :
        stock0[pid] - db.products[pid].stock_count = SumQty(LinesOfProduct(db.orderlines, pid))

\* a checkout with lines to commit has failed after another one committed lines
C6_Witness ==
    /\ ret.op = "checkout"
    /\ ret.status = "error"
    /\ \E i \in 1 .. Len(ret.rows) :
          ret.rows[i][2] > 0 /\ StockOf(db.products, ret.rows[i][1]) > 0
    /\ db.orderlines /= {}

\* C7: when a checkout commits, its customer has no cart row left, whatever
\* lines were skipped and whatever session the rows were tagged with
C7_CheckoutEmptiesCart ==
    [][\A p \in Procs : CheckoutCommits(p) => CustomerRows(db'.cart, call[p].cid) = {}]_vars

\* a checkout has committed that had read a cart line it skipped (no order
\* line for it), and the customer's cart is empty
C7_Witness ==
    /\ ret.op = "checkout"
    /\ ret.status = "ok"
    /\ \E i \in 1 .. Len(ret.rows) : LinesFor(db, ret.value, ret.rows[i][1]) = {}
    /\ CustomerRows(db.cart, ret.cid) = {}

\* C8: a checkout that read an empty cart and commits returns a number no
\* order had, adds exactly the header for its customer and session, adds no
\* order line and changes no product
C8_EmptyCartCheckout ==
    [][\A p \in Procs : (CheckoutCommits(p) /\ local[p].cart_rows = <<>>) =>
          /\ ret'.value = local[p].ono
          /\ local[p].ono \notin Onos(db.orders)
          /\ db'.orders = db.orders \cup {[ono |-> local[p].ono, cid |-> call[p].cid,
                                           sessionNo |-> call[p].sessionNo]}
          /\ db'.orderlines = db.orderlines
          /\ db'.products = db.products]_vars

\* a checkout of an empty cart has returned the number of an order without lines
C8_Witness ==
    /\ ret.op = "checkout"
    /\ ret.status = "ok"
    /\ ret.rows = <<>>
    /\ \E o \in db.orders : o.ono = ret.value /\ o.cid = ret.cid
    /\ OrderLinesOf(db.orderlines, ret.value) = {}

C10_LineNumbersSequential ==
    /\ [](\A o \in db.orders :
             LET lines == OrderLinesOf(db.orderlines, o.ono)
             IN  /\ {l.lineNo : l \in lines} = 1 .. Cardinality(lines)
                 /\ \A l1, l2 \in lines : l1.lineNo = l2.lineNo => l1 = l2)
    /\ [][\A p \in Procs : CheckoutCommits(p) =>
             LET rows      == local[p].cart_rows
                 Done(i)   == LinesFor(db', local[p].ono, rows[i][1]) /= {}
                 Before(i) == {j \in 1 .. (i - 1) : Done(j)}
             IN  /\ \A i \in 1 .. Len(rows) :
                        \A l \in LinesFor(db', local[p].ono, rows[i][1]) :
                            l.lineNo = 1 + Cardinality(Before(i))
                 /\ \A l \in OrderLinesOf(db'.orderlines, local[p].ono) :
                        \E i \in 1 .. Len(rows) : rows[i][1] = l.pid]_vars

\* a checkout has committed whose first cart row was skipped and whose second
\* row got line number 1
C10_Witness ==
    /\ ret.op = "checkout"
    /\ ret.status = "ok"
    /\ Len(ret.rows) >= 2
    /\ LinesFor(db, ret.value, ret.rows[1][1]) = {}
    /\ \E l \in LinesFor(db, ret.value, ret.rows[2][1]) : l.lineNo = 1

\* the call that returns in this step, if it is a call of op
Returns(op) == ret'.op = op

\* the cart of d with the rows of (cid, pid) replaced by one row
WithPairRow(d, cid, sessionNo, pid, qty) ==
    (d.cart \ {r \in d.cart : r.cid = cid /\ r.pid = pid})
        \cup {[cid |-> cid, sessionNo |-> sessionNo, pid |-> pid, qty |-> qty]}

\* d and e differ at most in the cart
SameButCart(d, e) == e = [d EXCEPT !.cart = e.cart]

\* C11: no step changes the header or the lines of an order that exists, so
\* ComputeOrderTotal of the order keeps its value under later price updates,
\* checkouts and cart operations; the uprice of the lines a checkout commits
\* is the product's price at the commit
C11_OrdersImmutable ==
    [][/\ \A o \in db.orders :
             /\ {h \in db'.orders : h.ono = o.ono} = {o}
             /\ OrderLinesOf(db'.orderlines, o.ono) = OrderLinesOf(db.orderlines, o.ono)
             /\ ComputeOrderTotal(db', o.ono) = ComputeOrderTotal(db, o.ono)
       /\ \A p \in Procs : CheckoutCommits(p) =>
             \A l \in OrderLinesOf(db'.orderlines, local[p].ono) :
                 l.uprice = db.products[l.pid].price]_vars

\* an administrative update has just changed the price of a product that an
\* order line holds at the price of its checkout
C11_Witness ==
    /\ ret.op = "update_product_price_stock"
    /\ ret.status = "ok"
    /\ ret.value = 1
    /\ \E l \in db.orderlines : db.products[l.pid].price /= l.uprice

\* C12: set_cart_qty_if_in_stock returns False and changes nothing when
\* qty < 0 or qty > stock_count (0 for an unknown product); otherwise, when it
\* returns, it returns True and the pair holds exactly qty in one row of
\* session sessionNo, everything else unchanged; a call the store fails
\* changes nothing
C12_TrySetExactOrRefuse ==
    [][Returns("set_cart_qty_if_in_stock") =>
          LET a == ret'.args
          IN  IF a.qty < 0 \/ a.qty > StockOf(db.products, a.pid)
              THEN ret'.status = "ok" /\ ret'.value = 0 /\ db' = db
              ELSE \/ /\ ret'.status = "ok"
                      /\ ret'.value = 1
                      /\ db'.cart = WithPairRow(db, a.cid, a.sessionNo, a.pid, a.qty)
                      /\ SameButCart(db, db')
                   \/ /\ ret'.status \in {"error", "IntegrityError"}
                      /\ db' = db]_vars

\* a call has set a pair to the whole stock of its product, after the stock
\* was lowered, and returned True
C12_Witness ==
    /\ ret.op = "set_cart_qty_if_in_stock"
    /\ ret.status = "ok"
    /\ ret.value = 1
    /\ ret.args.pid \in ProductIds
    /\ ret.args.qty = db.products[ret.args.pid].stock_count
    /\ ret.args.qty < stock0[ret.args.pid]
    /\ ret.args.qty >= 1

\* C13: update_cart_qty raises ValueError exactly when qty < 0, and the call
\* that raises changes no cart row and no product
C13_NegativeSetRaises ==
    [][Returns("update_cart_qty") =>
          /\ ret'.args.qty < 0 <=> ret'.status = "ValueError"
          /\ ret'.status = "ValueError" => db' = db]_vars

\* a negative update_cart_qty has raised on a pair that holds a row
C13_Witness ==
    /\ ret.op = "update_cart_qty"
    /\ ret.status = "ValueError"
    /\ ret.args.qty < 0
    /\ PairRows(db.cart, ret.args.cid, ret.args.pid) /= {}

\* C14: update_cart_qty with qty = 0 raises no error and, when it commits,
\* removes exactly the rows of its pair: on a pair without row it changes
\* nothing, so applying it twice ends where applying it once does
C14_SetZeroDeletesPair ==
    [][(Returns("update_cart_qty") /\ ret'.args.qty = 0) =>
          LET a == ret'.args
          IN  /\ ret'.status \in {"ok", "error"}
              /\ ret'.status = "ok" =>
                    /\ db'.cart = db.cart \ {r \in db.cart : r.cid = a.cid /\ r.pid = a.pid}
                    /\ SameButCart(db, db')
              /\ (ret'.status = "ok" /\ PairRows(db.cart, a.cid, a.pid) = {}) => db' = db
              /\ ret'.status = "error" => db' = db]_vars

\* update_cart_qty with qty = 0 has returned, its pair has no row and its
\* customer still holds a row of another product
C14_Witness ==
    /\ ret.op = "update_cart_qty"
    /\ ret.status = "ok"
    /\ ret.args.qty = 0
    /\ PairRows(db.cart, ret.args.cid, ret.args.pid) = {}
    /\ CustomerRows(db.cart, ret.args.cid) /= {}

\* C15: every cart row has a quantity of at least 1
C15_CartRowsPositive == \A r \in db.cart : r.qty >= 1

\* C16: add_to_cart with qty <= 0, or on a product whose stock_count is <= 0
\* or that does not exist, returns without changing anything
C16_AddNoOp ==
    [][Returns("add_to_cart") =>
          LET a == ret'.args
          IN  (a.qty <= 0 \/ StockOf(db.products, a.pid) <= 0) =>
                  ret'.status = "ok" /\ db' = db]_vars

\* an add_to_cart of a positive quantity has returned on a product without
\* stock whose pair still holds its row
C16_Witness ==
    /\ ret.op = "add_to_cart"
    /\ ret.status = "ok"
    /\ ret.args.qty >= 1
    /\ ret.args.pid \in ProductIds
    /\ db.products[ret.args.pid].stock_count = 0
    /\ \E r \in PairRows(db.cart, ret.args.cid, ret.args.pid) : r.qty >= 1

\* C17: add_to_cart with qty > 0 on a product in stock, when it commits,
\* leaves for its pair exactly one row, of session sessionNo, holding
\* min(T + qty, stock_count) with T the sum the pair held before the call,
\* and changes nothing else
C17_AddConsolidates ==
    [][Returns("add_to_cart") =>
          LET a     == ret'.args
              stock == StockOf(db.products, a.pid)
              T     == SumQty({r \in db.cart : r.cid = a.cid /\ r.pid = a.pid})
          IN  (a.qty > 0 /\ stock > 0) =>
                  \/ /\ ret'.status = "ok"
                     /\ db'.cart = WithPairRow(db, a.cid, a.sessionNo, a.pid,
                                               IF T + a.qty <= stock THEN T + a.qty ELSE stock)
                     /\ SameButCart(db, db')
                  \/ /\ ret'.status = "error"
                     /\ db' = db]_vars

\* the second call, an add_to_cart of 1 from the second session of its
\* customer, has left the pair with one row of that session holding 2
C17_Witness ==
    /\ ret.op = "add_to_cart"
    /\ ret.status = "ok"
    /\ ret.args.qty = 1
    /\ ret.args.sessionNo = 2
    /\ calls.total = MaxSeqCalls - 2
    /\ PairRows(db.cart, ret.args.cid, ret.args.pid) =
          {[cid |-> ret.args.cid, sessionNo |-> 2, pid |-> ret.args.pid, qty |-> 2]}

\* C18: update_cart_qty with qty > 0 never raises ValueError and, when it
\* commits, leaves for its pair exactly one row, of session sessionNo,
\* holding min(qty, stock_count), and changes nothing else
C18_SetCapsSilently ==
    [][(Returns("update_cart_qty") /\ ret'.args.qty > 0) =>
          LET a     == ret'.args
              stock == StockOf(db.products, a.pid)
          IN  \/ /\ ret'.status = "ok"
                 /\ db'.cart = WithPairRow(db, a.cid, a.sessionNo, a.pid,
                                           IF a.qty <= stock THEN a.qty ELSE stock)
                 /\ SameButCart(db, db')
              \/ /\ ret'.status \in {"error", "IntegrityError"}
                 /\ db' = db]_vars

\* an update_cart_qty asking for more than the stock has left the pair with
\* the whole stock, which is positive
C18_Witness ==
    /\ ret.op = "update_cart_qty"
    /\ ret.status = "ok"
    /\ ret.args.pid \in ProductIds
    /\ ret.args.qty > db.products[ret.args.pid].stock_count
    /\ \E r \in PairRows(db.cart, ret.args.cid, ret.args.pid) :
          r.qty = db.products[ret.args.pid].stock_count /\ r.qty >= 1

\* C19: the set of products, their names and descriptions never change;
\* a price changes only in a committing update_product_price_stock, a
\* stock_count only there and in a committing checkout
C19_ProductsFrame ==
    [][/\ DOMAIN db'.products = DOMAIN db.products
       /\ \A pid \in DOMAIN db.products :
             /\ db'.products[pid].name = db.products[pid].name
             /\ db'.products[pid].descr = db.products[pid].descr
             /\ db'.products[pid].price /= db.products[pid].price =>
                   ret'.op = "update_product_price_stock" /\ ret'.status = "ok"
             /\ db'.products[pid].stock_count /= db.products[pid].stock_count =>
                   ret'.op \in {"update_product_price_stock", "checkout"} /\ ret'.status = "ok"]_vars

\* a customer search has been recorded after a checkout took stock
C19_Witness ==
    /\ ret.op = "search_products"
    /\ ret.status = "ok"
    /\ db.search /= <<>>
    /\ \E pid \in ProductIds : db.products[pid].stock_count < stock0[pid]
    /\ db.orderlines /= {}

\* C20: mixed_product_search_sales changes nothing, the search table
\* included, and returns the list the last call returned when the query and
\* the catalog are the same
C20_AdminSearchPure ==
    [][Returns("mixed_product_search_sales") =>
          /\ db' = db
          /\ ret'.status = "ok"
          /\ (lastSearch.made /\ lastSearch.query = ret'.args.query
                /\ lastSearch.products = db.products) => ret'.rows = lastSearch.result]_vars

\* a query of two words has been repeated on the same catalog and has
\* returned a list of two products that is not in pid order
C20_Witness ==
    /\ ret.op = "mixed_product_search_sales"
    /\ lastSearch.repeated
    /\ Len(ret.rows) = 2
    /\ ret.rows[1] > ret.rows[2]
    /\ Len(Split(Strip(ret.args.query))) = 2


\* the spec's "contains": term occurs in text as it is written, letters
\* compared without case
Contains(text, term) ==
    \E i \in 0 .. (Len(text) - Len(term)) :
        \A j \in 1 .. Len(term) : LowerChar(term[j]) = LowerChar(text[i + j])

\* the products whose name or descr contains term
Containing(products, term) ==
    {pid \in DOMAIN products :
        Contains(products[pid].name, term) \/ Contains(products[pid].descr, term)}

Elems(seq) == {seq[i] : i \in 1 .. Len(seq)}

IsAscending(seq) == \A i, j \in 1 .. Len(seq) : i < j => seq[i] < seq[j]

\* seq lists the elements of S once each, in ascending order
AscendingListOf(seq, S) == IsAscending(seq) /\ Elems(seq) = S

\* C21: an administrative search on a query of digits returns the one product
\* whose pid is the number, when there is one, and otherwise the products
\* whose name or descr contains the digits, in ascending pid order.
C21_DigitQuery ==
    [][Returns("mixed_product_search_sales") /\ IsDigit(Phrase(ret'.args.query)) =>
          LET phrase == Phrase(ret'.args.query)
              exact  == {pid \in DOMAIN db.products : Decimal(pid) = IntDigits(phrase)}
          IN  /\ ret'.status = "ok"
              /\ IF exact /= {}
                 THEN \E pid \in exact : ret'.rows = <<pid>>
                 ELSE AscendingListOf(ret'.rows, Containing(db.products, phrase))]_vars

\* the position in words of the first token that pid matches, 0 if none
FirstToken(products, words, pid) ==
    IF \E k \in 1 .. Len(words) : pid \in Containing(products, words[k])
    THEN CHOOSE k \in 1 .. Len(words) :
            /\ pid \in Containing(products, words[k])
            /\ \A m \in 1 .. (k - 1) : pid \notin Containing(products, words[m])
    ELSE 0

\* rows lists the phrase matches in ascending pid order, then the other
\* products by the first token they match and, within a token, by pid
PhraseThenTokens(products, phrase, words, rows) ==
    LET byPhrase == Containing(products, phrase)
        byToken  == UNION {Containing(products, words[k]) : k \in 1 .. Len(words)}
    IN  /\ \A i, j \in 1 .. Len(rows) : rows[i] = rows[j] => i = j
        /\ Elems(rows) = byPhrase \cup byToken
        /\ \A i, j \in 1 .. Len(rows) :
              i < j =>
                 \/ rows[i] \in byPhrase /\ rows[j] \notin byPhrase
                 \/ rows[i] \in byPhrase /\ rows[j] \in byPhrase /\ rows[i] < rows[j]
                 \/ /\ rows[i] \notin byPhrase
                    /\ rows[j] \notin byPhrase
                    /\ \/ FirstToken(products, words, rows[i]) < FirstToken(products, words, rows[j])
                       \/ /\ FirstToken(products, words, rows[i]) =
                                FirstToken(products, words, rows[j])
                          /\ rows[i] < rows[j]

\* C22: an administrative search on a query of two or more tokens returns
\* the products containing the whole phrase first, in ascending pid order,
\* then for each token in order of first occurrence the products containing
\* it that were not yet listed, and lists no product twice.
C22_PhraseBeforeTokens ==
    [][Returns("mixed_product_search_sales") /\ Len(Split(Phrase(ret'.args.query))) > 1 =>
          /\ ret'.status = "ok"
          /\ PhraseThenTokens(db.products, Phrase(ret'.args.query),
                              Split(Phrase(ret'.args.query)), ret'.rows)]_vars

\* C23: an administrative search on a query that is empty after trimming
\* returns every product of the catalog once, in ascending pid order.
C23_EmptyQueryListsAll ==
    [][Returns("mixed_product_search_sales") /\ Strip(ret'.args.query) = <<>> =>
          /\ ret'.status = "ok"
          /\ AscendingListOf(ret'.rows, DOMAIN db.products)]_vars

\* a search on a query of spaces only has returned the two products
C23_Witness ==
    /\ ret.op = "mixed_product_search_sales"
    /\ ret.args.query = <<" ", " ">>
    /\ ret.rows = <<1, 2>>

\* C24: every customer search that returns appends one record (customer,
\* session, timestamp, query as passed) to the search table and changes
\* nothing else, whatever the query, the page and the result; a query empty
\* after trimming gives an empty page and total 0 and is recorded too.  A
\* call the store fails changes nothing.
C24_CustomerSearchRecorded ==
    [][Returns("search_products") =>
          LET a == ret'.args
          IN  /\ ret'.status = "ok" =>
                    /\ db'.search = Append(db.search,
                                           [cid |-> a.cid, sessionNo |-> a.sessionNo,
                                            ts |-> a.when, query |-> a.query])
                    /\ [db' EXCEPT !.search = db.search] = db
              /\ ret'.status /= "ok" => db' = db
              /\ ret'.status = "ok" /\ Strip(a.query) = <<>> =>
                    ret'.rows = <<>> /\ ret'.value = 0]_vars

\* a search on a single space was recorded as passed, after an earlier
\* record, and returned nothing
C24_Witness ==
    /\ ret.op = "search_products"
    /\ ret.status = "ok"
    /\ ret.args.query = <<" ">>
    /\ ret.rows = <<>>
    /\ ret.value = 0
    /\ Len(db.search) = 2
    /\ db.search[2] = [cid |-> ret.args.cid, sessionNo |-> ret.args.sessionNo,
                       ts |-> ret.args.when, query |-> <<" ">>]

\* the elements of S in ascending order
AscendingList(S) == CHOOSE f \in [1 .. Cardinality(S) -> S] : AscendingListOf(f, S)

\* the products containing the phrase of keyword or one of its tokens
ContainingAnyTerm(products, keyword) ==
    Containing(products, Phrase(keyword)) \cup
    UNION {Containing(products, w) : w \in Elems(Split(Phrase(keyword)))}

\* the elements of all at positions (page-1)*page_size+1 .. page*page_size
PageAt(all, page, page_size) ==
    [i \in 1 .. Min(page_size, Len(all) - (page - 1) * page_size) |->
        all[(page - 1) * page_size + i]]

\* C25: a customer search returns as total the number of products whose name
\* or descr contains the phrase or one of its tokens, and as page the
\* elements (page-1)*pageSize .. page*pageSize-1 of these products in
\* ascending pid order, so that the pages in sequence list each match once.
C25_TotalAndPage ==
    [][Returns("search_products") /\ ret'.status = "ok" /\ ret'.args.page >= 1 =>
          LET a       == ret'.args
              matches == IF Phrase(a.query) = <<>> THEN {}
                         ELSE ContainingAnyTerm(db.products, a.query)
          IN  /\ ret'.value = Cardinality(matches)
              /\ ret'.rows = PageAt(AscendingList(matches), a.page, a.page_size)]_vars

\* C26: compute_order_total returns the sum of qty * uprice over the lines
\* of the order asked for and of no other, 0 when the order has no line or
\* does not exist, and never raises.
C26_OrderTotal ==
    [][Returns("compute_order_total") =>
          LET lines == {l \in db.orderlines : l.ono = ret'.args.ono}
          IN  /\ ret'.status = "ok"
              /\ ret'.value = SumQtyPrice(lines)
              /\ lines = {} => ret'.value = 0
              /\ db' = db]_vars

\* the total of an order with a line was returned
C26_Witness ==
    /\ ret.op = "compute_order_total"
    /\ ret.args.ono \in Onos(db.orders)
    /\ \E l \in db.orderlines : l.ono = ret.args.ono /\ ret.value = l.qty * l.uprice
    /\ ret.value = 2

\* C27: remove_from_cart, when it commits, deletes the rows of its pair,
\* whatever their session, and leaves every other pair and every other
\* table as they are; on a pair without row it changes nothing.  A call the
\* store fails changes nothing.
C27_RemoveDeletesPair ==
    [][Returns("remove_from_cart") =>
          LET a == ret'.args
          IN  /\ ret'.status \in {"ok", "error"}
              /\ ret'.status = "ok" =>
                    /\ PairRows(db'.cart, a.cid, a.pid) = {}
                    /\ \A cid \in Cids, pid \in Pids :
                          <<cid, pid>> /= <<a.cid, a.pid>> =>
                             PairRows(db'.cart, cid, pid) = PairRows(db.cart, cid, pid)
                    /\ SameButCart(db, db')
              /\ (ret'.status = "ok" /\ PairRows(db.cart, a.cid, a.pid) = {}) => db' = db
              /\ ret'.status = "error" => db' = db]_vars

\* remove_from_cart has returned, its pair has no row and a pair of the same
\* customer or of the same product still holds one
C27_Witness ==
    /\ ret.op = "remove_from_cart"
    /\ ret.status = "ok"
    /\ PairRows(db.cart, ret.args.cid, ret.args.pid) = {}
    /\ \E r \in db.cart : r.cid = ret.args.cid \/ r.pid = ret.args.pid

\* C28: clear_cart, when it commits, deletes every cart row of its customer,
\* so that list_cart, which returns the pairs of the customer's rows, is
\* empty, and leaves the rows of the other customers and every other table
\* as they are.
C28_ClearEmptiesCustomer ==
    [][/\ Returns("clear_cart") /\ ret'.status = "ok" =>
             /\ db'.cart = {r \in db.cart : r.cid /= ret'.args.cid}
             /\ GroupedCart(db'.cart, ret'.args.cid) = {}
             /\ SameButCart(db, db')
       /\ Returns("clear_cart") /\ ret'.status /= "ok" => db' = db
       /\ Returns("list_cart") =>
             /\ Elems(ret'.rows) = GroupedCart(db.cart, ret'.args.cid)
             /\ CustomerRows(db.cart, ret'.args.cid) = {} => ret'.rows = <<>>]_vars

\* clear_cart has returned, its customer has no row and the other customer
\* still holds one
C28_Witness ==
    /\ ret.op = "clear_cart"
    /\ ret.status = "ok"
    /\ CustomerRows(db.cart, ret.args.cid) = {}
    /\ db.cart /= {}

\* c and d are the same character, or the same letter in two cases
SameLetter(c, d) == c = d \/ {c, d} = {"a", "A"}

\* other is query in another letter case, between added spaces
IsVariant(query, other) ==
    \E i, j \in 0 .. Len(other) :
        /\ i + Len(query) + j = Len(other)
        /\ \A k \in 1 .. i : other[k] = " "
        /\ \A k \in 1 .. j : other[Len(other) - k + 1] = " "
        /\ \A k \in 1 .. Len(query) : SameLetter(query[k], other[i + k])

\* C29: both searches return, for a query written in another letter case or
\* with spaces added before and after it, the products they return for the
\* query itself, in the same order (and the customer search the same total).
C29_CaseAndSpaceInsensitive ==
    [][\A other \in StringsUpTo(Alphabet \cup WildChars, MaxQueryLen) :
          IsVariant(ret'.args.query, other) /\ ret'.status = "ok" =>
             /\ Returns("mixed_product_search_sales") =>
                   AdminSearch(db.products, other) = {ret'.rows}
             /\ Returns("search_products") =>
                   LET found == MatchesAny(db.products, SearchTerms(other))
                   IN  /\ Cardinality(found) = ret'.value
                       /\ \A rows \in SelectOrders(found) :
                             PageOf(rows, ret'.args.page, ret'.args.page_size) = ret'.rows]_vars

\* a search on " A", the letter a in upper case after a space, has returned
\* the two products that contain an a
C29_Witness ==
    /\ ret.op = "mixed_product_search_sales"
    /\ ret.status = "ok"
    /\ ret.args.query = <<" ", "A">>
    /\ ret.rows = <<1, 2>>

\* C30: every checkout that has started returns, by committing or failing.
C30_CheckoutTerminates ==
    \A p \in Procs : (pc[p] \in {"co_rand", "co_exists", "co_order"}) ~> (pc[p] = "idle")

\* C31: update_product_price_stock returns False and changes nothing when
\* both new values are absent or the product does not exist; otherwise, when
\* it commits, it returns True, sets the fields provided and leaves the field
\* not provided, every other product and every other table as they are.
C31_UpdateSetsProvidedOnly ==
    [][Returns("update_product_price_stock") =>
          LET a       == ret'.args
              WithProvided(products) ==
                  [products EXCEPT
                      ![a.pid].price = IF a.new_price /= None THEN a.new_price ELSE @,
                      ![a.pid].stock_count =
                          IF a.new_stock_count /= None THEN a.new_stock_count ELSE @]
              absent  == a.new_price = None /\ a.new_stock_count = None
              missing == a.pid \notin DOMAIN db.products
          IN  /\ ret'.status \in {"ok", "error"}
              /\ ret'.status = "error" => db' = db
              /\ ret'.status = "ok" =>
                    IF absent \/ missing
                    THEN ret'.value = 0 /\ db' = db
                    ELSE /\ ret'.value = 1
                         /\ db' = [db EXCEPT !.products = WithProvided(@)]]_vars

\* C32: top_products_by_orders returns <<pid, number of distinct orders with
\* a line of pid>> in descending order of that number, ties by ascending pid;
\* without ties at k it returns at most k entries (none for k < 1); with ties
\* it returns nothing for k < 1 and otherwise exactly the products whose count
\* is at least the count of the k-th ranked product (the last one when fewer
\* than k have been ordered).
C32_TopProducts ==
    [][Returns("top_products_by_orders") =>
          LET rows   == ret'.rows
              k      == ret'.args.k
              sold   == {l.pid : l \in db.orderlines}
              n(pid) == Cardinality({o \in Onos(db.orders) :
                                        \E l \in db.orderlines : l.ono = o /\ l.pid = pid})
              Above(pid) == {q \in sold : n(q) > n(pid) \/ (n(q) = n(pid) /\ q < pid)}
              kth    == CHOOSE pid \in sold :
                            Cardinality(Above(pid)) + 1 = Min(k, Cardinality(sold))
          IN  /\ \A i \in 1 .. Len(rows) : rows[i][1] \in sold /\ rows[i][2] = n(rows[i][1])
              /\ \A i, j \in 1 .. Len(rows) :
                    i < j => \/ rows[i][2] > rows[j][2]
                             \/ rows[i][2] = rows[j][2] /\ rows[i][1] < rows[j][1]
              /\ ~ret'.args.include_ties_at_k =>
                    Len(rows) <= (IF k > 0 THEN k ELSE 0)
              /\ ret'.args.include_ties_at_k =>
                    IF k < 1 \/ sold = {} THEN rows = <<>>
                    ELSE {rows[i][1] : i \in 1 .. Len(rows)} = {q \in sold : n(q) >= n(kth)}]_vars

\* C33: of two concurrent checkouts of a customer at most one commits the
\* cart contents: the lines a checkout commits take their quantity from rows
\* that are still in the cart, so no quantity is ordered, and taken from the
\* stock, a second time after another checkout has ordered and cleared it.
C33_CartOrderedOnce ==
    [][\A p \in Procs :
          CheckoutCommits(p) =>
              \A l \in db'.orderlines \ db.orderlines :
                  /\ l.qty <= CurTotal(db.cart, call[p].cid, l.pid)
                  /\ db.products[l.pid].stock_count - db'.products[l.pid].stock_count
                        <= CurTotal(db.cart, call[p].cid, l.pid)]_vars

\* C34: a cart line written while the customer's checkout is running is not
\* lost: the checkout's final clear deletes only quantities the checkout read
\* when it built the order, so at its commit the cart holds, per product, no
\* more than the checkout read.
C34_ClearDeletesOnlyRowsRead ==
    [][\A p \in Procs :
          CheckoutCommits(p) =>
              \A pid \in Pids :
                  LET read == {local[p].cart_rows[i] : i \in 1 .. Len(local[p].cart_rows)}
                  IN  \/ CurTotal(db.cart, call[p].cid, pid) = 0
                      \/ \E r \in read :
                            r[1] = pid /\ CurTotal(db.cart, call[p].cid, pid) <= r[2]]_vars

\* C35: a consolidating replace (add_to_cart, update_cart_qty or
\* set_cart_qty_if_in_stock at its DELETE and INSERT) on a pair that has a row
\* leaves the pair with a row in the next committed state, whether it commits
\* or fails, so a list_cart or a checkout of another caller that reads the
\* cart while the replace is under way finds the pair in it.
C35_NoGapInReplace ==
    [][\A p \in Procs :
          (/\ pc[p] \in {"add_replace", "set_replace", "try_replace"}
           /\ PairRows(db.cart, call[p].cid, call[p].pid) /= {}) =>
              /\ pc'[p] = "idle" => PairRows(db'.cart, call[p].cid, call[p].pid) /= {}
              /\ \A q \in Procs \ {p} :
                    /\ (Returns("list_cart") /\ ret'.proc = q /\ ret'.cid = call[p].cid) =>
                          \E i \in 1 .. Len(ret'.rows) : ret'.rows[i][1] = call[p].pid
                    /\ (pc[q] = "idle" /\ pc'[q] = "co_rand" /\ call'[q].cid = call[p].cid) =>
                          \E i \in 1 .. Len(local'[q].cart_rows) :
                              local'[q].cart_rows[i][1] = call[p].pid]_vars

\* an add_to_cart of one unit has committed on a pair that held one unit,
\* while a checkout of the same customer, which read that unit, is under way
C35_Witness ==
    /\ ret.op = "add_to_cart"
    /\ ret.status = "ok"
    /\ ret.args.qty = 1
    /\ CurTotal(db.cart, ret.cid, ret.args.pid) = 2
    /\ \E q \in Procs \ {ret.proc} :
          /\ pc[q] \in {"co_rand", "co_exists", "co_order"}
          /\ call[q].cid = ret.cid
          /\ local[q].cart_rows = <<<<ret.args.pid, 1>>>>

\* C37: for a query of two or more tokens mixed_product_search_sales and
\* search_products match the same products: the total search_products
\* returns is the length of every list mixed_product_search_sales may return
\* on the same catalog, a page that holds all matches holds the pids of that
\* list, and the pids mixed_product_search_sales returns are those
\* search_products counts.
C37_SearchesAgree ==
    [][(ret'.status = "ok" /\ Len(Split(Phrase(ret'.args.query))) >= 2) =>
          LET a == ret'.args
          IN  /\ Returns("search_products") =>
                    \A r \in AdminSearch(db.products, a.query) :
                        /\ ret'.value = Len(r)
                        /\ (a.page <= 1 /\ a.page_size >= Len(r)) =>
                              {ret'.rows[i] : i \in 1 .. Len(ret'.rows)} =
                                  {r[i] : i \in 1 .. Len(r)}
              /\ Returns("mixed_product_search_sales") =>
                    LET found == MatchesAny(db.products, SearchTerms(a.query))
                    IN  /\ {ret'.rows[i] : i \in 1 .. Len(ret'.rows)} = found
                        /\ Len(ret'.rows) = Cardinality(found)]_vars

\* search_products has returned both products for "a 1", whose phrase and
\* tokens each match product 2
C37_Witness ==
    /\ ret.op = "search_products"
    /\ ret.status = "ok"
    /\ ret.args.query = <<"a", " ", "1">>
    /\ ret.args.page = 1
    /\ ret.args.page_size = 5
    /\ ret.value = 2
    /\ ret.rows = <<1, 2>>

\* C38: every order has at most one line per product and every line a
\* quantity of at least 1; a checkout reads, once per product, the total
\* quantity of its own customer's cart rows, the lines it commits are for
\* products it read with at most the quantity read, one line per product, and
\* it leaves the cart rows of every other customer as they are.
C38_LinesFromOwnCart ==
    [][/\ \A l, m \in db'.orderlines :
             /\ l.qty >= 1
             /\ (l.ono = m.ono /\ l.pid = m.pid) => l = m
       /\ \A p \in Procs :
             /\ (pc[p] = "idle" /\ pc'[p] = "co_rand") =>
                   LET cid  == call'[p].cid
                       read == local'[p].cart_rows
                       own(pid) == {r \in db.cart : r.cid = cid /\ r.pid = pid}
                   IN  /\ \A i, j \in 1 .. Len(read) : read[i][1] = read[j][1] => i = j
                       /\ \A i \in 1 .. Len(read) :
                             own(read[i][1]) /= {} /\ read[i][2] = SumQty(own(read[i][1]))
                       /\ \A r \in db.cart :
                             r.cid = cid => \E i \in 1 .. Len(read) : read[i][1] = r.pid
             /\ CheckoutCommits(p) =>
                   LET cid  == call[p].cid
                       read == local[p].cart_rows
                   IN  /\ \A l \in db'.orderlines \ db.orderlines :
                             /\ l.ono = ret'.value
                             /\ \E i \in 1 .. Len(read) :
                                   read[i][1] = l.pid /\ l.qty <= read[i][2]
                       /\ {r \in db'.cart : r.cid /= cid} = {r \in db.cart : r.cid /= cid}]_vars

\* a checkout of customer 2 has committed an order with a line while
\* customer 1 holds a cart row, which is still there
C38_Witness ==
    /\ ret.op = "checkout"
    /\ ret.status = "ok"
    /\ ret.cid = 2
    /\ \E l \in db.orderlines : l.ono = ret.value
    /\ \E r \in db.cart : r.cid = 1

====
